---- MODULE Spec2Model ----
(***************************************************************************)
(* A model of monk's validator engine (monk/validators.py, monk/errors.py, *)
(* monk/shortcuts.py, monk/helpers.py): validators are records, Python     *)
(* values are records, and calling a validator yields an outcome record    *)
(* that is either OK or the exception that escapes the call.               *)
(***************************************************************************)
EXTENDS Integers, Sequences, FiniteSets

VARIABLES schema, validator, value, pc, result, history, locals, inverted,
          merged, retranslated, built, heap, remerged

vars == <<schema, validator, value, pc, result, history, locals, inverted,
          merged, retranslated, built, heap, remerged>>

----------------------------------------------------------------------------
(* Bounds of the explored universe.                                        *)

MaxSpecs == 3
MaxItems == 3
MaxKeys == 3
MaxPairs == 2
MaxInvert == 2

----------------------------------------------------------------------------
(* Python values.  Every value has the same four fields; strings of the    *)
(* model have at most one character, so that substring tests are exact.    *)

MkValue(t, n, s, items) == [t |-> t, n |-> n, s |-> s, items |-> items]

None == MkValue("NoneType", 0, "", <<>>)

MISSING == MkValue("MISSING", 0, "", <<>>)

NotImplemented == MkValue("NotImplemented", 0, "", <<>>)

PyInt(i) == MkValue("int", i, "", <<>>)

PyStr(s) == MkValue("str", 0, s, <<>>)

PyList(items) == MkValue("list", 0, "", items)

\* a dict is the sequence of its items, in iteration order, keys distinct
PyDict(items) == MkValue("dict", 0, "", items)

Item(k, v) == [k |-> k, v |-> v]

\* a type object such as int or str, named by s
PyType(name) == MkValue("type", 0, name, <<>>)

\* a zero-argument callable that returns real_value
PyFunction(real_value) == MkValue("function", 0, "", <<real_value>>)

\* a validator instance used as a Python value (in a literal schema)
PyValidator(v) == MkValue("validator", 0, "", <<v>>)

\* bool(value): None, 0, '' and empty containers are falsy
Truthy(x) ==
    CASE x.t = "NoneType" -> FALSE
      [] x.t = "int" -> x.n # 0
      [] x.t = "str" -> x.s # ""
      [] x.t \in {"list", "dict"} -> x.items # <<>>
      [] OTHER -> TRUE

isinstance(x, T) == x.t = T

hasattr(x, name) == name = "__len__" /\ x.t \in {"str", "list", "dict"}

len(x) == IF x.t = "str" THEN (IF x.s = "" THEN 0 ELSE 1) ELSE Len(x.items)

Keys(d) == [i \in 1..Len(d.items) |-> d.items[i].k]

----------------------------------------------------------------------------
(* Exceptions (monk/errors.py).  An outcome is OK or an exception record;  *)
(* args are the positional arguments the exception was constructed with.   *)

OK == [kind |-> "ok", args |-> <<>>]

ValidationErrorKinds ==
    {"ValidationError", "StructureSpecificationError", "DictValueError",
     "MissingKeys", "InvalidKeys", "CombinedValidationError", "AllFailed",
     "AtLeastOneFailed"}

CombinedKinds == {"CombinedValidationError", "AllFailed", "AtLeastOneFailed"}

TypeError == [kind |-> "TypeError", args |-> <<>>]

AssertionError == [kind |-> "AssertionError", args |-> <<>>]

IsOK(r) == r.kind = "ok"

IsValidationError(r) == r.kind \in ValidationErrorKinds

IsText(m) == "text" \in DOMAIN m

\* ValidationError.__init__(self, message, value=None): one or two
\* positional arguments, anything else is a TypeError at construction
ValidationError_init(cls, args) ==
    IF Len(args) \in {1, 2} THEN [kind |-> cls, args |-> args] ELSE TypeError

\* str(e): the outcome of formatting an exception into a message
ValidationError_str(e) ==
    CASE e.kind = "MissingKeys" -> AssertionError
      [] e.kind \in CombinedKinds ->
            IF IsText(e.args[1]) THEN OK ELSE TypeError
      [] OTHER -> OK

----------------------------------------------------------------------------
(* Validators (monk/validators.py).                                        *)

Anything == [cls |-> "Anything", negated |-> FALSE]

IsA(expected_type, default) ==
    [cls |-> "IsA", negated |-> FALSE, expected_type |-> expected_type,
     default |-> default]

Equals(expected_value) ==
    [cls |-> "Equals", negated |-> FALSE, expected_value |-> expected_value]

Contains(expected_value) ==
    [cls |-> "Contains", negated |-> FALSE, expected_value |-> expected_value]

Exists(default) == [cls |-> "Exists", negated |-> FALSE, default |-> default]

\* monk/reqs.py, the class monk/shortcuts.py combines with
NotExists == [cls |-> "NotExists", negated |-> FALSE, default |-> None]

InRange(min, max, default) ==
    [cls |-> "InRange", negated |-> FALSE, min |-> min, max |-> max,
     default |-> default]

Length(min, max, default) ==
    [cls |-> "Length", negated |-> FALSE, min |-> min, max |-> max,
     default |-> default]

HasAttr(attr_name) ==
    [cls |-> "HasAttr", negated |-> FALSE, attr_name |-> attr_name]

ListOfAll(nested_validator, default) ==
    [cls |-> "ListOfAll", negated |-> FALSE,
     nested_validator |-> nested_validator, default |-> default]

ListOfAny(nested_validator, default) ==
    [cls |-> "ListOfAny", negated |-> FALSE,
     nested_validator |-> nested_validator, default |-> default]

ListOf(nested_validator, default) == ListOfAll(nested_validator, default)

DictOf(pairs) == [cls |-> "DictOf", negated |-> FALSE, pairs |-> pairs]

All(specs, default, first_is_default) ==
    [cls |-> "All", negated |-> FALSE, specs |-> specs, default |-> default,
     first_is_default |-> first_is_default]

Any(specs, default, first_is_default) ==
    [cls |-> "Any", negated |-> FALSE, specs |-> specs, default |-> default,
     first_is_default |-> first_is_default]

\* __invert__: a deep copy with the flag flipped
invert_mutant(self) == [self EXCEPT !.negated = TRUE]

invert(self) == [self EXCEPT !.negated = ~self.negated]

\* v | w and v & w with validator operands
or(self, other) == Any(<<self, other>>, None, FALSE)

and(self, other) == All(<<self, other>>, None, FALSE)

IsCombinator(self) == self.cls \in {"All", "Any"}

IsListOf(self) == self.cls \in {"ListOfAll", "ListOfAny"}

error_class(self) ==
    CASE self.cls = "All" -> "AtLeastOneFailed"
      [] self.cls = "Any" -> "AllFailed"
      [] self.cls = "ListOfAll" -> "AtLeastOneFailed"
      [] self.cls = "ListOfAny" -> "AllFailed"
      [] OTHER -> "ValidationError"

break_on_first_fail_mutant(self) == FALSE

break_on_first_fail(self) == self.cls = "All"

ITEM_STRATEGY_ANY == "any"

ITEM_STRATEGY_ALL == "all"

item_strategy(self) ==
    IF self.cls = "ListOfAll" THEN ITEM_STRATEGY_ALL ELSE ITEM_STRATEGY_ANY

\* the class attribute `implies`: empty when NotImplemented
implies(self) ==
    CASE IsListOf(self) -> <<IsA("list", None)>>
      [] self.cls = "DictOf" -> <<IsA("dict", None)>>
      [] self.cls = "InRange" ->
            <<or(IsA("int", None), IsA("float", None))>>
      [] self.cls = "Length" -> <<HasAttr("__len__")>>
      [] OTHER -> <<>>

Repr(self) == [text |-> "repr", of |-> self]

raise_error(self) == ValidationError_init(error_class(self), <<Repr(self)>>)

\* All.can_tolerate / Any.can_tolerate
can_tolerate(self, errors) ==
    IF self.cls = "All" THEN errors = <<>> ELSE Len(errors) < Len(self.specs)

BaseListOf_can_tolerate(self, errors, v) ==
    IF item_strategy(self) = ITEM_STRATEGY_ALL
    THEN errors = <<>>
    ELSE Len(errors) < Len(v.items)

----------------------------------------------------------------------------
(* Leaf checks.                                                            *)

Anything_check(self, v) == OK

IsA_check(self, v) ==
    IF isinstance(v, self.expected_type) THEN OK ELSE raise_error(self)

Equals_check(self, v) ==
    IF self.expected_value # v THEN raise_error(self) ELSE OK

\* `expected not in value`: substring, list membership, dict key membership;
\* a TypeError for a value that is no container
Contains_check(self, v) ==
    CASE v.t = "str" ->
            IF self.expected_value.t # "str" THEN TypeError
            ELSE IF self.expected_value.s = "" \/ self.expected_value.s = v.s
                 THEN OK ELSE raise_error(self)
      [] v.t = "list" ->
            IF \E i \in 1..Len(v.items) : v.items[i] = self.expected_value
            THEN OK ELSE raise_error(self)
      [] v.t = "dict" ->
            IF \E i \in 1..Len(v.items) : v.items[i].k = self.expected_value
            THEN OK ELSE raise_error(self)
      [] OTHER -> TypeError

Exists_check(self, v) == IF v = MISSING THEN raise_error(self) ELSE OK

NotExists_check_mutant(self, v) ==
    IF v = MISSING
    THEN ValidationError_init("ValidationError", <<Repr(self)>>) ELSE OK

NotExists_check(self, v) ==
    IF v # MISSING
    THEN ValidationError_init("ValidationError", <<Repr(self)>>) ELSE OK

\* reached only for int values (implies) or for a length
InRange_check(self, v) ==
    IF self.min # None /\ self.min.n > v.n THEN raise_error(self)
    ELSE IF self.max # None /\ self.max.n < v.n THEN raise_error(self)
    ELSE OK

Length_check(self, v) == InRange_check(self, PyInt(len(v)))

HasAttr_check(self, v) ==
    IF hasattr(v, self.attr_name) THEN OK ELSE raise_error(self)

----------------------------------------------------------------------------
(* Calling a validator.                                                    *)

RECURSIVE Call(_, _)
RECURSIVE Check(_, _)
RECURSIVE BaseCombinator_loop(_, _, _, _)
RECURSIVE BaseListOf_loop(_, _, _, _)
RECURSIVE DictOf_items(_, _, _, _, _)
RECURSIVE DictOf_pairs(_, _, _, _)

\* the body of the loop of BaseCombinator._check once child i returned or
\* raised r: the try/except around spec(value)
BaseCombinator_body(self, v, i, errors, r) ==
    IF IsOK(r) THEN BaseCombinator_loop(self, v, i + 1, errors)
    ELSE IF IsValidationError(r) /\ ~break_on_first_fail(self)
         THEN BaseCombinator_loop(self, v, i + 1, Append(errors, r))
         ELSE [out |-> r, called |-> [c \in 1..i |-> c]]

\* BaseCombinator._check: the loop over self._specs from child i on, with
\* the errors collected so far; `called` lists the children evaluated
BaseCombinator_loop(self, v, i, errors) ==
    IF i > Len(self.specs)
    THEN [out |-> IF can_tolerate(self, errors) THEN OK
                  ELSE ValidationError_init(error_class(self), errors),
          called |-> [c \in 1..(i - 1) |-> c]]
    ELSE BaseCombinator_body(self, v, i, errors, Call(self.specs[i], v))

BaseCombinator_check(self, v) == BaseCombinator_loop(self, v, 1, <<>>)

\* the message 'item #i: {error}' / 'lacks item: {error}'
ItemText(what, i, e) == [text |-> what, i |-> i, of |-> e]

\* the body of the loop over enumerate(value) once the nested validator
\* returned or raised r on item i: the try/except around it
BaseListOf_body(self, v, i, errors, r) ==
    IF IsOK(r) THEN BaseListOf_loop(self, v, i + 1, errors)
    ELSE IF IsValidationError(r)
         THEN LET s == ValidationError_str(r)
                  annotated_error ==
                      ValidationError_init("ValidationError",
                                           <<ItemText("item", i - 1, r)>>)
              IN  IF ~IsOK(s) THEN s
                  ELSE IF item_strategy(self) = ITEM_STRATEGY_ALL
                       THEN annotated_error
                       ELSE BaseListOf_loop(self, v, i + 1,
                                            Append(errors, annotated_error))
         ELSE r

\* BaseListOf._check, the loop over enumerate(value)
BaseListOf_loop(self, v, i, errors) ==
    IF i > Len(v.items)
    THEN IF BaseListOf_can_tolerate(self, errors, v) THEN OK
         ELSE ValidationError_init(error_class(self), errors)
    ELSE BaseListOf_body(self, v, i, errors,
                         Call(self.nested_validator, v.items[i]))

\* BaseListOf._check after the probe of an empty value returned or raised
\* probe (OK for a non-empty value, which is not probed)
BaseListOf_probed(self, v, probe) ==
    IF IsOK(probe) THEN BaseListOf_loop(self, v, 1, <<>>)
    ELSE IF IsValidationError(probe)
         THEN LET s == ValidationError_str(probe) IN
              IF ~IsOK(s) THEN s
              ELSE ValidationError_init("ValidationError",
                                        <<ItemText("lacks item", 0, probe)>>)
         ELSE probe

BaseListOf_check(self, v) ==
    BaseListOf_probed(self, v,
        IF Truthy(v) THEN OK ELSE Call(self.nested_validator, MISSING))

\* the message 'in {k!r} ({e})' / '{k!r} value {e}'
ValueText(k, e) ==
    [text |-> IF e.kind = "DictValueError" THEN "in" ELSE "value",
     k |-> k, of |-> e]

\* the locals of DictOf._check: the keys validated so far, the pair that
\* validated each of them, the pairs recorded as missing, and the exception
\* that ended the scan (OK while it goes on); scanned tells whether the
\* loop over the pairs ran to its end
DictLocals(keys, by, missing, out) ==
    [validated_data_keys |-> keys, by |-> by, missing_key_specs |-> missing,
     out |-> out, scanned |-> FALSE]

InSeq(e, s) == \E i \in 1..Len(s) : s[i] = e

\* the inner loop, were a key whose value fails left to the later pairs
DictOf_value_checked_mutant(self, v, p, j, st, k, vr) ==
    IF IsOK(vr)
    THEN DictOf_items(self, v, p, j + 1,
           [st EXCEPT !.validated_data_keys = Append(@, k),
                      !.by = Append(@, p)])
    ELSE DictOf_items(self, v, p, j + 1, st)

\* the inner loop once v_validator returned or raised vr on the value of
\* item j, whose key k the key validator accepted
DictOf_value_checked(self, v, p, j, st, k, vr) ==
    IF IsOK(vr)
    THEN DictOf_items(self, v, p, j + 1,
           [st EXCEPT !.validated_data_keys = Append(@, k),
                      !.by = Append(@, p)])
    ELSE IF vr.kind = "TypeError" \/ IsValidationError(vr)
         THEN LET s == ValidationError_str(vr) IN
              [st EXCEPT !.out =
                 IF ~IsOK(s) THEN s
                 ELSE ValidationError_init("DictValueError",
                                           <<ValueText(k, vr)>>)]
         ELSE [st EXCEPT !.out = vr]

\* the inner loop once k_validator returned or raised kr on the key of
\* item j
DictOf_key_checked(self, v, p, j, st, kr) ==
    IF kr.kind = "TypeError" \/ IsValidationError(kr)
    THEN DictOf_items(self, v, p, j + 1, st)
    ELSE IF ~IsOK(kr) THEN [st EXCEPT !.out = kr]
    ELSE DictOf_value_checked(self, v, p, j, st, v.items[j].k,
                              Call(self.pairs[p][2], v.items[j].v))

\* the inner loop, were it to stop at the first key a pair validates
DictOf_items_mutant(self, v, p, j, st) ==
    IF j > Len(v.items) \/ InSeq(p, st.by) THEN st
    ELSE IF InSeq(v.items[j].k, st.validated_data_keys)
         THEN DictOf_items(self, v, p, j + 1, st)
         ELSE DictOf_key_checked(self, v, p, j, st,
                                 Call(self.pairs[p][1], v.items[j].k))

\* DictOf._check, the inner loop `for k, v in value.items()` of pair p from
\* item j on
DictOf_items(self, v, p, j, st) ==
    IF j > Len(v.items) THEN st
    ELSE IF InSeq(v.items[j].k, st.validated_data_keys)
         THEN DictOf_items(self, v, p, j + 1, st)
         ELSE DictOf_key_checked(self, v, p, j, st,
                                 Call(self.pairs[p][1], v.items[j].k))

\* the value probed when a pair matched no key
probe_value_mutant == None

probe_value == MISSING

\* the outer loop once k_validator returned or raised m on the probe of a
\* pair that matched no key
DictOf_probed(self, v, p, st1, m) ==
    IF IsOK(m) THEN DictOf_pairs(self, v, p + 1, st1)
    ELSE IF IsValidationError(m)
         THEN DictOf_pairs(self, v, p + 1,
                [st1 EXCEPT !.missing_key_specs = Append(@, p)])
         ELSE [st1 EXCEPT !.out = m]

\* the outer loop once the inner loop of pair p left the locals st1
DictOf_matched(self, v, p, st1) ==
    IF ~IsOK(st1.out) THEN st1
    ELSE IF InSeq(p, st1.by) THEN DictOf_pairs(self, v, p + 1, st1)
    ELSE DictOf_probed(self, v, p, st1, Call(self.pairs[p][1], probe_value))

\* DictOf._check, the outer loop `for k_validator, v_validator in self._pairs`
DictOf_pairs(self, v, p, st) ==
    IF p > Len(self.pairs) \/ ~IsOK(st.out) THEN st
    ELSE DictOf_matched(self, v, p, DictOf_items(self, v, p, 1, st))

SelectKeys(keys, done) ==
    SelectSeq(keys, LAMBDA k : ~InSeq(k, done))

\* the argument MissingKeys gets for a missing pair
MissingRepr(self, p) ==
    LET spec == self.pairs[p][1] IN
    IF spec.cls = "Equals" THEN spec.expected_value ELSE spec

\* DictOf._check after the loop over the pairs left the locals st0: the
\* checks of the unconsumed keys and of the missing pairs
DictOf_keys_checked(self, v, st0) ==
    LET st == [st0 EXCEPT !.scanned = IsOK(st0.out)]
    IN  IF ~IsOK(st0.out) THEN st
        ELSE IF Len(st0.validated_data_keys) < Len(v.items)
        THEN [st EXCEPT !.out =
                ValidationError_init("InvalidKeys",
                    SelectKeys(Keys(v), st0.validated_data_keys))]
        ELSE IF st0.missing_key_specs # <<>>
        THEN [st EXCEPT !.out =
                ValidationError_init("MissingKeys",
                    [i \in 1..Len(st0.missing_key_specs) |->
                        MissingRepr(self, st0.missing_key_specs[i])])]
        ELSE st

\* `value = value or {}`
DictOf_value(value0) == IF Truthy(value0) THEN value0 ELSE PyDict(<<>>)

\* DictOf._check as a whole: the locals at exit with the outcome in `out`
DictOf_check(self, value0) ==
    DictOf_keys_checked(self, DictOf_value(value0),
        DictOf_pairs(self, DictOf_value(value0), 1,
                     DictLocals(<<>>, <<>>, <<>>, OK)))

\* self._check(value), by class
Check(self, v) ==
    CASE self.cls = "Anything" -> Anything_check(self, v)
      [] self.cls = "IsA" -> IsA_check(self, v)
      [] self.cls = "Equals" -> Equals_check(self, v)
      [] self.cls = "Contains" -> Contains_check(self, v)
      [] self.cls = "Exists" -> Exists_check(self, v)
      [] self.cls = "NotExists" -> NotExists_check(self, v)
      [] self.cls = "InRange" -> InRange_check(self, v)
      [] self.cls = "Length" ->
            IF IsOK(Length_check(self, v)) THEN OK ELSE raise_error(self)
      [] self.cls = "HasAttr" -> HasAttr_check(self, v)
      [] IsListOf(self) -> BaseListOf_check(self, v)
      [] self.cls = "DictOf" -> DictOf_check(self, v).out
      [] IsCombinator(self) -> BaseCombinator_check(self, v).out

\* the wrapper, were it to let a negated validator's failure through
BaseValidator_negate_mutant(self, r) ==
    IF IsValidationError(r) THEN r
    ELSE IF IsOK(r) THEN (IF self.negated THEN raise_error(self) ELSE OK)
    ELSE r

\* BaseValidator.__call__ once _check returned or raised r: the negation-
\* aware try/except/else around it
BaseValidator_negate(self, r) ==
    IF IsValidationError(r) THEN (IF self.negated THEN OK ELSE r)
    ELSE IF IsOK(r) THEN (IF self.negated THEN raise_error(self) ELSE OK)
    ELSE r

\* BaseValidator.__call__
BaseValidator_call(self, v) == BaseValidator_negate(self, Check(self, v))

\* BaseRequirement.__call__ once the implied validator returned or raised
\* ir (OK when the class implies nothing)
BaseRequirement_implied(self, v, ir) ==
    IF IsOK(ir) THEN BaseValidator_call(self, v) ELSE ir

\* BaseRequirement.__call__: the implied validator runs first, unnegated
BaseRequirement_call(self, v) ==
    BaseRequirement_implied(self, v,
        IF implies(self) = <<>> THEN OK ELSE Call(implies(self)[1], v))

Call(self, v) ==
    IF IsCombinator(self) THEN BaseValidator_call(self, v)
    ELSE BaseRequirement_call(self, v)

ImpliesPass(self, v) ==
    implies(self) = <<>> \/ IsOK(Call(implies(self)[1], v))

----------------------------------------------------------------------------
(* Defaults of leaf validators and translation of literal schemas.         *)

\* the _default attribute: NotImplemented on the classes that never set it
default_of(self) ==
    CASE self.cls \in {"Equals", "Contains"} -> self.expected_value
      [] self.cls \in {"Anything", "HasAttr", "DictOf"} -> NotImplemented
      [] OTHER -> self.default

NoDefaultValue == [kind |-> "NoDefaultValue", args |-> <<>>]

\* BaseValidator._merge: the default, or NoDefaultValue
BaseValidator_merge(self, v) ==
    IF v # None THEN NoDefaultValue
    ELSE IF default_of(self) = NotImplemented THEN NoDefaultValue
    ELSE default_of(self)

IsException(r) == "kind" \in DOMAIN r

\* the default of a translated key, were none ever extracted
leaf_get_default_for_mutant(self, v) == v

\* get_default_for(value, silent=True) of a leaf validator
leaf_get_default_for(self, v) ==
    LET r == BaseValidator_merge(self, v) IN
    IF IsException(r) THEN v ELSE r

StructureSpecificationError ==
    [kind |-> "StructureSpecificationError", args |-> <<[text |-> "count"]>>]

RECURSIVE translate(_)
RECURSIVE translate_items(_, _)

\* a validator instance, were it translated like any other literal
translate_instance_mutant(v) == IsA(v.t, v)

\* `if isinstance(value, BaseValidator): return value`
translate_instance(v) == v.items[1]

\* the loop `for k, v in value.items()` of translate, from item i on: the
\* pairs built, and the exception a nested translation raised (OK if none)
translate_items(d, i) ==
    IF i > Len(d.items) THEN [items |-> <<>>, raised |-> OK]
    ELSE LET k == d.items[i].k
             tk == translate(k)
             k_validator ==
                 IF k.t = "validator" THEN k.items[1]
                 ELSE IF leaf_get_default_for(tk, None) # None
                      THEN Equals(leaf_get_default_for(tk, None))
                      ELSE tk
             v_validator == translate(d.items[i].v)
             rest == translate_items(d, i + 1)
         IN  IF IsException(v_validator)
             THEN [items |-> <<>>, raised |-> v_validator]
             ELSE [items |-> <<(<<k_validator, v_validator>>)>> \o rest.items,
                   raised |-> rest.raised]

\* translate(value): a validator, or the exception it raises
translate(v) ==
    CASE v.t = "validator" -> translate_instance(v)
      [] v = None -> Anything
      [] v.t = "type" -> IsA(v.s, None)
      [] v.t = "list" ->
            IF v.items = <<>> THEN IsA("list", None)
            ELSE IF Len(v.items) = 1
                 THEN LET inner == translate(v.items[1]) IN
                      IF IsException(inner) THEN inner
                      ELSE ListOf(inner, None)
                 ELSE StructureSpecificationError
      [] v.t = "dict" ->
            IF v.items = <<>> THEN IsA("dict", None)
            ELSE LET tr == translate_items(v, 1) IN
                 IF ~IsOK(tr.raised) THEN tr.raised ELSE DictOf(tr.items)
      [] v.t = "function" -> IsA(v.items[1].t, v.items[1])
      [] OTHER -> IsA(v.t, v)

\* monk/shortcuts.py
optional(spec) == or(translate(spec), NotExists)

opt_key(spec) ==
    IF spec.t = "str" THEN optional(PyValidator(Equals(spec)))
    ELSE optional(spec)

\* monk/helpers.py: validate(spec, value)
validate(spec, v) ==
    LET tr == translate(spec) IN
    IF IsException(tr) THEN tr ELSE Call(tr, v)

----------------------------------------------------------------------------
(* Construction of combinators: v & other, v | other, All([...]) and       *)
(* Any([...]).  An operand is a Python value: a validator instance, a      *)
(* class (a type object) or any other literal.                             *)

\* the subclasses of BaseValidator
ValidatorClasses ==
    {"Anything", "IsA", "Equals", "Contains", "Exists", "NotExists",
     "InRange", "Length", "HasAttr", "ListOf", "ListOfAll", "ListOfAny",
     "DictOf", "All", "Any"}

\* isinstance(other, type) and issubclass(other, BaseValidator)
is_validator_class(other) == other.t = "type" /\ other.s \in ValidatorClasses

_reluctantly_translate(spec) ==
    IF spec.t = "validator" THEN spec.items[1] ELSE translate(spec)

\* BaseCombinator.__init__ once its specs were translated into tr: the
\* instance, or the exception the first failing translation raised
BaseCombinator_translated(cls, tr, default, first_is_default) ==
    IF \E i \in 1..Len(tr) : IsException(tr[i])
    THEN tr[CHOOSE i \in 1..Len(tr) :
                /\ IsException(tr[i])
                /\ \A j \in 1..(i - 1) : ~IsException(tr[j])]
    ELSE [cls |-> cls, negated |-> FALSE, specs |-> tr, default |-> default,
          first_is_default |-> first_is_default]

\* BaseCombinator.__init__(specs, default, first_is_default) of class cls
BaseCombinator_init(cls, specs, default, first_is_default) ==
    IF specs = <<>> THEN AssertionError
    ELSE BaseCombinator_translated(cls,
             [i \in 1..Len(specs) |-> _reluctantly_translate(specs[i])],
             default, first_is_default)

\* _combine once `other` is known to be no validator class and was
\* translated into t
_combine_translated(self, t, combinator) ==
    IF IsException(t) THEN t
    ELSE BaseCombinator_init(combinator, <<PyValidator(self), PyValidator(t)>>,
                             None, FALSE)

\* BaseValidator._combine(other, combinator)
_combine(self, other, combinator) ==
    IF is_validator_class(other) THEN TypeError
    ELSE _combine_translated(self, _reluctantly_translate(other), combinator)

\* self & other
__and__(self, other) == _combine(self, other, "All")

\* self | other
__or__(self, other) == _combine(self, other, "Any")

----------------------------------------------------------------------------
(* Validator objects.  Python validators are objects that refer to their   *)
(* children; here the objects live in `nodes`, a sequence indexed by       *)
(* address, and a combinator's specs are the addresses of its children.    *)
(* Every operation is given by the objects it leaves behind.               *)

MaxNodes == 4

RECURSIVE Deref(_, _)
RECURSIVE Reach(_, _)

\* the validator tree rooted at address a
Deref(nodes, a) ==
    IF IsCombinator(nodes[a])
    THEN [nodes[a] EXCEPT
            !.specs = [i \in 1..Len(@) |-> Deref(nodes, nodes[a].specs[i])]]
    ELSE nodes[a]

\* the addresses of the objects reachable from a, a included
Reach(nodes, a) ==
    IF IsCombinator(nodes[a])
    THEN {a} \cup UNION {Reach(nodes, nodes[a].specs[i]) :
                            i \in 1..Len(nodes[a].specs)}
    ELSE {a}

\* a reference to the validator instance at address a, as a Python value
PyRef(a) == MkValue("validator", a, "", <<>>)

\* the address copy.deepcopy gives the copy of object o when it copies the
\* objects of R: each object is copied once, behind the existing ones
copy_of(nodes, R, o) == Len(nodes) + Cardinality({r \in R : r <= o})

\* the copy of object o, its children being the copies of o's children
copied(nodes, R, o) ==
    IF IsCombinator(nodes[o])
    THEN [nodes[o] EXCEPT
            !.specs = [i \in 1..Len(@) |->
                          copy_of(nodes, R, nodes[o].specs[i])]]
    ELSE nodes[o]

\* copy.deepcopy(self): the objects after the copy
deepcopy(nodes, R) ==
    nodes \o [k \in 1..Cardinality(R) |->
                copied(nodes, R,
                       CHOOSE o \in R : copy_of(nodes, R, o) = Len(nodes) + k)]

\* the object negated, were __invert__ to flip self in place
clone_mutant(nodes, a) == a

\* `clone = copy.deepcopy(self)`: the address of the copy of a
clone(nodes, a) == copy_of(nodes, Reach(nodes, a), a)

\* __invert__: the objects after `clone.negated = not self.negated`
__invert__(nodes, a) ==
    [deepcopy(nodes, Reach(nodes, a)) EXCEPT
        ![clone(nodes, a)].negated = ~nodes[a].negated]

\* _combine, the objects after `combinator([self, t])`, t being the address
\* of the translated operand: one new combinator that refers to both
combined(nodes, a, t, combinator) ==
    Append(nodes, [cls |-> combinator, negated |-> FALSE, specs |-> <<a, t>>,
                   default |-> None, first_is_default |-> FALSE])

\* self & other, self | other on objects, other being a class or a
\* reference to a validator instance (which _reluctantly_translate returns
\* as it is): the objects after it, the address returned (0 if none) and
\* the exception raised (OK if none)
heap_combine(nodes, a, other, combinator) ==
    IF is_validator_class(other)
    THEN [nodes |-> nodes, ret |-> 0, raised |-> TypeError]
    ELSE [nodes |-> combined(nodes, a, other.n, combinator),
          ret |-> Len(nodes) + 1, raised |-> OK]

----------------------------------------------------------------------------
(* Defaults: get_default_for(value) and the _merge of each class.  A merge  *)
(* yields a Python value, or the exception that escapes it.                *)

RECURSIVE merge(_, _)
RECURSIVE get_default_for(_, _, _)
RECURSIVE BaseCombinator_defaults(_, _, _, _)
RECURSIVE BaseListOf_merge_items(_, _, _, _)
RECURSIVE DictOf_merge_pairs(_, _, _, _)

\* hash(x): lists and dicts are unhashable, so they are no dict keys
Hashable(x) == x.t \notin {"list", "dict"}

\* `if self._default:` in BaseCombinator._merge
prefers_default(self) == Truthy(self.default)

\* the loop over self._specs once child i returned or raised d
BaseCombinator_collected(self, v, i, defaults, d) ==
    IF ~IsException(d)
    THEN BaseCombinator_defaults(self, v, i + 1, Append(defaults, d))
    ELSE IF d.kind = "NoDefaultValue"
         THEN BaseCombinator_defaults(self, v, i + 1, defaults)
         ELSE [defaults |-> defaults, raised |-> d]

\* BaseCombinator._merge, the loop `for choice in self._specs` from child i
\* on: the defaults collected, and the exception that escaped (OK if none)
BaseCombinator_defaults(self, v, i, defaults) ==
    IF i > Len(self.specs) THEN [defaults |-> defaults, raised |-> OK]
    ELSE BaseCombinator_collected(self, v, i, defaults,
             get_default_for(self.specs[i], v, FALSE))

\* BaseCombinator._merge after the loop collected c
BaseCombinator_chosen(self, v, c) ==
    IF ~IsOK(c.raised) THEN c.raised
    ELSE IF c.defaults = <<>> THEN v
    ELSE IF Len(c.defaults) = 1 THEN c.defaults[1]
    ELSE IF self.first_is_default THEN c.defaults[1]
    ELSE v

BaseCombinator_merge(self, v) ==
    IF prefers_default(self) THEN self.default
    ELSE BaseCombinator_chosen(self, v,
             BaseCombinator_defaults(self, v, 1, <<>>))

\* the list comprehension once item i was merged into d
BaseListOf_merged_item(self, v, i, acc, d) ==
    IF IsException(d) THEN d
    ELSE BaseListOf_merge_items(self, v, i + 1, Append(acc, d))

\* [x if x is None else item_spec.get_default_for(x) for x in value]
BaseListOf_merge_items(self, v, i, acc) ==
    IF i > Len(v.items) THEN PyList(acc)
    ELSE BaseListOf_merged_item(self, v, i, acc,
             IF v.items[i] = None THEN None
             ELSE get_default_for(self.nested_validator, v.items[i], TRUE))

\* `if not value:` in BaseListOf._merge
BaseListOf_is_missing(v) == ~Truthy(v)

BaseListOf_merge(self, v) ==
    IF BaseListOf_is_missing(v) THEN PyList(<<>>)
    ELSE IF v # None /\ ~isinstance(v, "list") THEN v
    ELSE BaseListOf_merge_items(self, v, 1, <<>>)

\* d.get(k) on the items of a dict: the value at k, or None
dict_get(items, k) ==
    IF \E i \in 1..Len(items) : items[i].k = k
    THEN items[CHOOSE i \in 1..Len(items) : items[i].k = k].v
    ELSE None

\* k in d
dict_has(items, k) == \E i \in 1..Len(items) : items[i].k = k

\* d.update({k: x}): the value at k is replaced, a new key goes last
dict_update(items, k, x) ==
    IF dict_has(items, k)
    THEN [i \in 1..Len(items) |->
             IF items[i].k = k THEN Item(k, x) ELSE items[i]]
    ELSE Append(items, Item(k, x))

\* the loop over the pairs once v_validator merged the value at k_default
\* into v_default: collected.update({k_default: v_default})
DictOf_merged_value(self, v, p, collected, k_default, v_default) ==
    IF IsException(v_default) THEN [items |-> collected, raised |-> v_default]
    ELSE IF ~Hashable(k_default)
         THEN [items |-> collected, raised |-> TypeError]
         ELSE DictOf_merge_pairs(self, v, p + 1,
                  dict_update(collected, k_default, v_default))

\* the loop over the pairs once k_validator.get_default_for(None) gave
\* k_default: value.get(k_default) needs a hashable key
DictOf_merged_key(self, v, p, collected, k_default) ==
    IF IsException(k_default)
    THEN [items |-> collected, raised |-> k_default]
    ELSE IF k_default = None
    THEN DictOf_merge_pairs(self, v, p + 1, collected)
    ELSE IF Truthy(v) /\ ~Hashable(k_default)
    THEN [items |-> collected, raised |-> TypeError]
    ELSE DictOf_merged_value(self, v, p, collected, k_default,
             get_default_for(self.pairs[p][2],
                 IF Truthy(v) THEN dict_get(v.items, k_default) ELSE None,
                 TRUE))

\* DictOf._merge, the loop `for k_validator, v_validator in self._pairs`
\* from pair p on: the items collected, and the exception that escaped
DictOf_merge_pairs(self, v, p, collected) ==
    IF p > Len(self.pairs) THEN [items |-> collected, raised |-> OK]
    ELSE DictOf_merged_key(self, v, p, collected,
             get_default_for(self.pairs[p][1], None, TRUE))

\* the keys of value that collected lacks, in iteration order
DictOf_rest(v, collected) ==
    SelectSeq(v.items, LAMBDA it : ~dict_has(collected, it.k))

\* DictOf._merge after the loop over the pairs: the original keys that are
\* not covered are copied through
DictOf_copied(v, c) ==
    IF ~IsOK(c.raised) THEN c.raised
    ELSE IF Truthy(v) THEN PyDict(c.items \o DictOf_rest(v, c.items))
    ELSE PyDict(c.items)

DictOf_merge(self, v) ==
    IF v # None /\ ~isinstance(v, "dict") THEN v
    ELSE IF self.pairs = <<>> THEN PyDict(<<>>)
    ELSE DictOf_copied(v, DictOf_merge_pairs(self, v, 1, <<>>))

\* self._merge(value), by class
merge(self, v) ==
    CASE IsCombinator(self) -> BaseCombinator_merge(self, v)
      [] IsListOf(self) -> BaseListOf_merge(self, v)
      [] self.cls = "DictOf" -> DictOf_merge(self, v)
      [] OTHER -> BaseValidator_merge(self, v)

\* get_default_for once _merge returned or raised r
get_default_for_merged(v, silent, r) ==
    IF IsException(r) /\ r.kind = "NoDefaultValue" /\ silent THEN v ELSE r

\* BaseValidator.get_default_for(value, silent)
get_default_for(self, v, silent) ==
    get_default_for_merged(v, silent, merge(self, v))

----------------------------------------------------------------------------
(* The inputs explored: validators and literal schemas with the values     *)
(* they are applied to.                                                    *)

SeqsUpTo(S, n) == UNION {[1..k -> S] : k \in 0..n}

Injective(s) == \A i, j \in 1..Len(s) : s[i] = s[j] => i = j

IntOrStr == or(IsA("int", None), IsA("str", None))

\* children of the combinators explored
ChildPool ==
    {IsA("int", None), IsA("str", None), IsA("list", None),
     Contains(PyStr("a")), invert(Exists(None)), ListOf(IntOrStr, None)}

CombinatorPool ==
    {All(specs, None, FALSE) : specs \in SeqsUpTo(ChildPool, MaxSpecs) \ {<<>>}}
    \cup
    {Any(specs, None, FALSE) : specs \in SeqsUpTo(ChildPool, MaxSpecs) \ {<<>>}}

AtomPool ==
    {PyInt(1), PyStr("a"), PyStr("b"), None, MISSING, PyList(<<None>>)}

LeafPool ==
    {Anything, IsA("int", None), Equals(PyStr("a")), Contains(PyStr("a")),
     Exists(None), NotExists, InRange(PyInt(1), PyInt(2), NotImplemented),
     InRange(None, PyInt(2), NotImplemented),
     Length(PyInt(1), None, NotImplemented), HasAttr("__len__"),
     ListOf(IsA("int", None), None), ListOfAny(IsA("int", None), None),
     DictOf(<<>>), DictOf(<<(<<Equals(PyStr("a")), IsA("int", None)>>)>>),
     IntOrStr, and(IsA("str", None), Length(PyInt(1), None, NotImplemented)),
     Any(<<IsA("int", None), IsA("str", None), IsA("list", None)>>,
         None, FALSE)}

LeafValues ==
    {PyInt(1), PyInt(3), PyStr("a"), PyStr(""), None, MISSING, PyList(<<>>),
     PyList(<<PyInt(1)>>), PyList(<<PyStr("a")>>), PyDict(<<>>),
     PyDict(<<Item(PyStr("a"), PyInt(1))>>)}

\* item validators of the list validators explored
ItemPool ==
    {IsA("int", None), IntOrStr, or(IsA("int", None), invert(Exists(None))),
     Contains(PyStr("a")),
     DictOf(<<(<<Equals(PyStr("a")), IsA("int", None)>>)>>)}

ListOfPool ==
    {ListOfAll(v, None) : v \in ItemPool} \cup
    {ListOfAny(v, None) : v \in ItemPool}

ListItemPool == {PyInt(1), PyStr("a"), None, PyDict(<<>>)}

ListValues == {PyList(items) : items \in SeqsUpTo(ListItemPool, MaxItems)}

\* declared pairs of the dict validators explored
PairPool ==
    {<<Equals(PyStr("a")), IsA("int", None)>>,
     <<or(Equals(PyStr("b")), invert(Exists(None))), IsA("int", None)>>,
     <<IsA("str", None), IsA("int", None)>>,
     <<IsA("int", None), IntOrStr>>,
     <<Contains(PyStr("c")), IsA("str", None)>>}

DictOfPool == {DictOf(pairs) : pairs \in SeqsUpTo(PairPool, MaxPairs)}

KeyPool == {PyStr("a"), PyStr("b"), PyStr("c"), PyInt(1)}

DictValuePool == {PyInt(1), PyStr("x")}

DictValues ==
    UNION {{PyDict([i \in 1..Len(ks) |-> Item(ks[i], vs[i])]) :
                vs \in [1..Len(ks) -> DictValuePool]} :
           ks \in {s \in SeqsUpTo(KeyPool, MaxKeys) : Injective(s)}}

\* {"a": int, "b": optional(int)}
SchemaOptionalValue ==
    PyDict(<<Item(PyStr("a"), PyType("int")),
             Item(PyStr("b"), PyValidator(optional(PyType("int"))))>>)

\* {"a": int, opt_key("b"): int}
SchemaOptKey ==
    PyDict(<<Item(PyStr("a"), PyType("int")),
             Item(PyValidator(opt_key(PyStr("b"))), PyType("int"))>>)

\* literal schemas
SchemaPool ==
    {SchemaOptionalValue, SchemaOptKey,
     PyDict(<<Item(PyStr("a"), PyType("int"))>>),
     PyDict(<<Item(PyType("str"), PyType("int"))>>),
     PyDict(<<Item(PyStr("a"), PyInt(1)), Item(PyStr("b"), None)>>)}

NoSchema == MkValue("no schema", 0, "", <<>>)

Untranslated == [cls |-> "untranslated", negated |-> FALSE]

\* keys and values of the literal dicts translated
LiteralKeyPool ==
    {PyStr("a"), PyInt(1), None, PyType("str"), PyFunction(PyStr("k")),
     PyValidator(IsA("str", None))}

LiteralValuePool ==
    {PyType("int"), PyInt(1), None, PyList(<<PyType("int")>>),
     PyList(<<PyInt(1), PyInt(2)>>), PyDict(<<Item(PyStr("b"), PyStr("x"))>>)}

LiteralDicts ==
    UNION {{PyDict([i \in 1..Len(ks) |-> Item(ks[i], vs[i])]) :
                vs \in [1..Len(ks) -> LiteralValuePool]} :
           ks \in {s \in SeqsUpTo(LiteralKeyPool, MaxPairs) : Injective(s)}}

\* literal schemas of every form translate tells apart
TranslatePool ==
    {None, PyType("int"), PyInt(1), PyStr("a"), PyFunction(PyStr("x")),
     PyValidator(IsA("int", PyInt(1))), PyValidator(IntOrStr),
     PyList(<<>>), PyList(<<PyType("int")>>), PyList(<<PyInt(1), PyInt(2)>>),
     PyList(<<PyInt(1), PyInt(2), PyInt(3)>>),
     PyList(<<PyList(<<PyStr("a")>>)>>),
     PyList(<<PyList(<<PyInt(1), PyInt(2)>>)>>)}
    \cup LiteralDicts

\* dict validators whose value validators fail with errors of several
\* kinds: a nested dict validator, a combinator and a list validator
NestedDictPool ==
    {DictOf(<<(<<Equals(PyStr("a")),
                DictOf(<<(<<Equals(PyStr("b")), IsA("int", None)>>)>>)>>)>>),
     DictOf(<<(<<IsA("str", None), IntOrStr>>)>>),
     DictOf(<<(<<Equals(PyStr("a")), ListOfAny(IsA("int", None), None)>>),
              (<<IsA("str", None), Anything>>)>>)}

NestedValuePool ==
    {PyDict(<<>>), PyDict(<<Item(PyStr("x"), PyInt(1))>>),
     PyDict(<<Item(PyStr("b"), PyInt(1))>>),
     PyDict(<<Item(PyStr("b"), PyStr("x"))>>), None, PyInt(1),
     PyList(<<PyStr("x")>>), PyList(<<PyInt(1)>>)}

NestedValues ==
    {PyDict(<<Item(PyStr("a"), x)>>) : x \in NestedValuePool} \cup
    {PyDict(<<Item(PyStr("c"), PyInt(1)), Item(PyStr("a"), x)>>) :
        x \in NestedValuePool}

MergeChildPool ==
    {IsA("int", None), IsA("int", PyInt(1)), Anything,
     ListOf(IsA("int", None), None)}

\* explicit defaults of a combinator: none, a falsy one and a truthy one
MergeDefaultPool == {None, PyInt(0), PyInt(5)}

MergeCombinatorPool ==
    UNION {{All(specs, d, f), Any(specs, d, f)} :
           specs \in SeqsUpTo(MergeChildPool, MaxSpecs) \ {<<>>},
           d \in MergeDefaultPool, f \in BOOLEAN}

MergeLeafPool ==
    {IsA("str", PyStr("x")), Equals(PyInt(1)), Contains(PyStr("a")),
     Exists(None), NotExists, InRange(None, None, NotImplemented),
     InRange(None, None, PyInt(3)), Length(PyInt(1), None, NotImplemented),
     HasAttr("__len__"), invert(IsA("int", PyInt(1))),
     ListOf(IsA("int", PyInt(1)), None), ListOfAny(IsA("int", PyInt(1)), None),
     ListOf(DictOf(<<(<<Equals(PyStr("a")), IsA("int", PyInt(1))>>)>>), None),
     ListOf(IsA("int", None), PyList(<<PyInt(1)>>)),
     or(or(IsA("int", PyInt(1)), Anything), IsA("str", PyStr("x"))),
     or(DictOf(<<>>), IsA("int", None)),
     Any(<<IsA("str", None)>>, PyInt(5), FALSE),
     All(<<IsA("dict", PyDict(<<>>)),
           DictOf(<<(<<Equals(PyStr("a")), IsA("int", PyInt(1))>>)>>)>>,
         None, TRUE)}

\* declared pairs of the dict validators whose defaults are explored
MergePairPool ==
    {<<Equals(PyStr("a")), IsA("int", PyInt(1))>>,
     <<Equals(PyStr("a")), IsA("int", PyInt(2))>>,
     <<IsA("str", None), IsA("int", PyInt(7))>>,
     <<or(Equals(PyStr("b")), invert(Exists(None))), IsA("int", PyInt(3))>>,
     <<Equals(PyList(<<PyInt(1)>>)), IsA("int", None)>>,
     <<Equals(PyStr("b")),
       DictOf(<<(<<Equals(PyStr("a")), IsA("int", PyInt(1))>>)>>)>>}

MergeDictOfPool == {DictOf(pairs) : pairs \in SeqsUpTo(MergePairPool, MaxPairs)}

MergeValues ==
    {None, PyInt(0), PyInt(2), PyStr(""), PyStr("a"), PyList(<<>>),
     PyList(<<None, PyInt(2), PyDict(<<>>)>>), PyDict(<<>>),
     PyDict(<<Item(PyStr("a"), PyInt(5))>>),
     PyDict(<<Item(PyStr("a"), None), Item(PyStr("z"), PyInt(1))>>),
     PyDict(<<Item(PyStr("z"), PyStr("q")), Item(PyStr("b"), PyDict(<<>>))>>)}

\* the left operands and the right operands of the combinators built: a
\* validator class, a plain type, a validator instance and literals
CombineSelfPool ==
    {IsA("str", None), IntOrStr, Length(PyInt(3), None, NotImplemented),
     invert(Exists(None))}

OperandPool ==
    {PyType("Exists"), PyType("IsA"), PyType("DictOf"), PyType("int"),
     PyValidator(Exists(None)), PyValidator(IntOrStr), PyStr("a"), None,
     PyList(<<>>), PyList(<<PyType("int")>>), PyList(<<PyInt(1), PyInt(2)>>)}

CombineCases ==
    [schema : {NoSchema}, validator : CombineSelfPool, value : OperandPool]

\* the validator objects a run starts with, the values they are called on
\* and the right operands they are combined with
HeapLeafPool == {IsA("int", PyInt(1)), invert(Exists(None))}

HeapValues == {None, PyInt(1)}

HeapOperands(nodes) ==
    {PyRef(b) : b \in 1..Len(nodes)} \cup {PyType("Exists")}

MergeCases ==
    [schema : {NoSchema},
     validator : MergeCombinatorPool \cup MergeLeafPool \cup MergeDictOfPool,
     value : MergeValues]

Cases ==
    [schema : {NoSchema}, validator : CombinatorPool, value : AtomPool]
    \cup [schema : {NoSchema}, validator : LeafPool, value : LeafValues]
    \cup [schema : {NoSchema}, validator : ListOfPool,
          value : ListValues \cup {PyStr("a")}]
    \cup [schema : {NoSchema}, validator : DictOfPool,
          value : DictValues \cup {None}]
    \cup [schema : {NoSchema}, validator : NestedDictPool,
          value : NestedValues]
    \cup [schema : SchemaPool, validator : {Untranslated}, value : DictValues]
    \cup [schema : TranslatePool, validator : {Untranslated},
          value : {None, PyInt(1)}]

----------------------------------------------------------------------------
(* The state machine: a validator (built directly or translated from a     *)
(* literal schema) is called on a value, and may then be negated and       *)
(* called again.                                                           *)

NoLocals == [called |-> <<>>, dict |-> DictLocals(<<>>, <<>>, <<>>, OK)]

\* what _check went through when self was called on v
LocalsOf(self, v) ==
    [called |-> IF IsCombinator(self)
                THEN BaseCombinator_check(self, v).called ELSE <<>>,
     dict |-> IF self.cls = "DictOf" /\ ImpliesPass(self, v)
              THEN DictOf_check(self, v) ELSE NoLocals.dict]

\* no default computed yet
Unmerged == MkValue("unmerged", 0, "", <<>>)

\* no validator objects
NoHeap ==
    [nodes |-> <<>>, before |-> <<>>, cur |-> 0, op |-> "none", self |-> 0,
     arg |-> None, ret |-> 0, out |-> OK]

\* no combinator constructed yet
Unbuilt == [how |-> "none", out |-> OK]

\* the four ways of constructing a combinator from self and other
Construct(how, self, other) ==
    CASE how = "and" -> __and__(self, other)
      [] how = "or" -> __or__(self, other)
      [] how = "All" ->
            BaseCombinator_init("All", <<PyValidator(self), other>>,
                                None, FALSE)
      [] how = "Any" ->
            BaseCombinator_init("Any", <<PyValidator(self), other>>,
                                None, FALSE)

Init ==
    /\ \/ /\ \E c \in Cases :
                /\ schema = c.schema
                /\ validator = c.validator
                /\ value = c.value
          /\ pc = IF schema = NoSchema THEN "ready" ELSE "literal"
       \/ /\ \E c \in MergeCases :
                /\ schema = c.schema
                /\ validator = c.validator
                /\ value = c.value
          /\ pc = "default"
       \/ /\ \E c \in CombineCases :
                /\ schema = c.schema
                /\ validator = c.validator
                /\ value = c.value
          /\ pc = "operands"
    /\ result = OK
    /\ history = <<>>
    /\ locals = NoLocals
    /\ inverted = 0
    /\ merged = Unmerged
    /\ retranslated = Untranslated
    /\ built = Unbuilt
    /\ heap = NoHeap
    /\ remerged = Unmerged

\* validator(value)
Validate ==
    /\ pc = "ready"
    /\ result' = Call(validator, value)
    /\ history' = Append(history, result')
    /\ locals' = LocalsOf(validator, value)
    /\ pc' = "done"
    /\ UNCHANGED <<schema, validator, value, inverted, merged, retranslated,
                   built, heap, remerged>>

\* validate(schema, value)
ValidateSchema ==
    /\ pc = "literal"
    /\ result' = validate(schema, value)
    /\ history' = Append(history, result')
    /\ validator' = IF IsException(translate(schema)) THEN validator
                    ELSE translate(schema)
    /\ locals' = IF IsException(translate(schema)) THEN NoLocals
                 ELSE LocalsOf(translate(schema), value)
    /\ pc' = "done"
    /\ UNCHANGED <<schema, value, inverted, merged, retranslated, built,
                   heap, remerged>>

\* validator = ~validator
Invert ==
    /\ pc = "done"
    /\ inverted < MaxInvert
    /\ validator # Untranslated
    /\ validator' = invert(validator)
    /\ inverted' = inverted + 1
    /\ pc' = "ready"
    /\ UNCHANGED <<schema, value, result, history, locals, merged,
                   retranslated, built, heap, remerged>>

\* merged = validator.get_default_for(value)
GetDefaultFor ==
    /\ pc \in {"ready", "default"}
    /\ history = <<>>
    /\ merged' = get_default_for(validator, value, TRUE)
    /\ pc' = "defaulted"
    /\ UNCHANGED <<schema, validator, value, result, history, locals,
                   inverted, retranslated, built, heap, remerged>>

\* retranslated = translate(validator), on a validator instance: one built
\* directly, or the one translate built from the literal schema
Translate ==
    /\ pc = "done"
    /\ inverted = 0
    /\ validator # Untranslated
    /\ retranslated' = translate(PyValidator(validator))
    /\ pc' = "translated"
    /\ UNCHANGED <<schema, validator, value, result, history, locals,
                   inverted, merged, built, heap, remerged>>

\* built = validator & value, validator | value, All([validator, value])
\* or Any([validator, value])
Combine ==
    /\ pc = "operands"
    /\ \E how \in {"and", "or", "All", "Any"} :
          built' = [how |-> how, out |-> Construct(how, validator, value)]
    /\ pc' = "built"
    /\ UNCHANGED <<schema, validator, value, result, history, locals,
                   inverted, merged, retranslated, heap, remerged>>

\* remerged = validator.get_default_for(merged), merged being the value
\* the first get_default_for returned
GetDefaultForAgain ==
    /\ pc = "defaulted"
    /\ ~IsException(merged)
    /\ remerged' = get_default_for(validator, merged, TRUE)
    /\ pc' = "remerged"
    /\ UNCHANGED <<schema, validator, value, result, history, locals,
                   inverted, merged, retranslated, built, heap>>

\* validator(value), which returns, followed by validator(merged)
ValidateMerged ==
    /\ pc = "defaulted"
    /\ ~IsException(merged)
    /\ IsOK(Call(validator, value))
    /\ result' = Call(validator, merged)
    /\ pc' = "revalidated"
    /\ UNCHANGED <<schema, validator, value, history, locals, inverted,
                   merged, retranslated, built, heap, remerged>>

Next ==
    \/ Validate
    \/ ValidateSchema
    \/ Invert
    \/ GetDefaultFor
    \/ Translate
    \/ Combine
    \/ GetDefaultForAgain
    \/ ValidateMerged

Spec == Init /\ [][Next]_vars

----------------------------------------------------------------------------
(* The state machine of validator objects.  A program holds a validator v  *)
(* (heap.cur), at first a leaf, and goes on with v = ~v, v = v & other or  *)
(* v = v | other, other being any object built so far or a class; between  *)
(* these it calls any object or asks it for a default.  heap.before holds  *)
(* the objects as they were before the last operation, and heap.op,        *)
(* heap.self, heap.arg, heap.ret and heap.out tell that operation, the     *)
(* object it was applied to, its argument, the object it returned (0 if    *)
(* none) and what it returned or raised.                                   *)

HeapInit ==
    /\ schema = NoSchema
    /\ validator = Untranslated
    /\ value = None
    /\ pc = "heap"
    /\ result = OK
    /\ history = <<>>
    /\ locals = NoLocals
    /\ inverted = 0
    /\ merged = Unmerged
    /\ retranslated = Untranslated
    /\ built = Unbuilt
    /\ remerged = Unmerged
    /\ \E leaf \in HeapLeafPool :
          heap = [NoHeap EXCEPT !.nodes = <<leaf>>, !.before = <<leaf>>,
                                !.cur = 1, !.op = "init", !.ret = 1]

HeapUnchanged ==
    UNCHANGED <<schema, validator, value, pc, result, history, locals,
                inverted, merged, retranslated, built, remerged>>

\* a(x): _check and __call__ assign no attribute
HeapCall ==
    /\ \E a \in 1..Len(heap.nodes), x \in HeapValues :
          heap' = [nodes |-> heap.nodes, before |-> heap.nodes,
                   cur |-> heap.cur, op |-> "call", self |-> a, arg |-> x,
                   ret |-> 0, out |-> Call(Deref(heap.nodes, a), x)]
    /\ HeapUnchanged

\* a.get_default_for(x): _merge assigns no attribute
HeapGetDefaultFor ==
    /\ \E a \in 1..Len(heap.nodes), x \in HeapValues :
          heap' = [nodes |-> heap.nodes, before |-> heap.nodes,
                   cur |-> heap.cur, op |-> "default", self |-> a, arg |-> x,
                   ret |-> 0,
                   out |-> get_default_for(Deref(heap.nodes, a), x, TRUE)]
    /\ HeapUnchanged

\* v = ~v
HeapInvert ==
    /\ Len(heap.nodes) + Cardinality(Reach(heap.nodes, heap.cur)) <= MaxNodes
    /\ heap' = [nodes |-> __invert__(heap.nodes, heap.cur),
                before |-> heap.nodes, cur |-> clone(heap.nodes, heap.cur),
                op |-> "invert", self |-> heap.cur, arg |-> None,
                ret |-> clone(heap.nodes, heap.cur), out |-> OK]
    /\ HeapUnchanged

\* the state after `v = v & other` or `v = v | other` left c
HeapCombined(other, c) ==
    [nodes |-> c.nodes, before |-> heap.nodes,
     cur |-> IF IsOK(c.raised) THEN c.ret ELSE heap.cur,
     op |-> "combine", self |-> heap.cur, arg |-> other, ret |-> c.ret,
     out |-> c.raised]

\* v = v & other, v = v | other
HeapCombine ==
    /\ Len(heap.nodes) < MaxNodes
    /\ \E other \in HeapOperands(heap.nodes), combinator \in {"All", "Any"} :
          heap' = HeapCombined(other,
                      heap_combine(heap.nodes, heap.cur, other, combinator))
    /\ HeapUnchanged

HeapNext == HeapCall \/ HeapGetDefaultFor \/ HeapInvert \/ HeapCombine

HeapSpec == HeapInit /\ [][HeapNext]_vars

----------------------------------------------------------------------------
(* Properties.                                                             *)

Called == pc = "done"

Plain(cls) == Called /\ validator.cls = cls /\ ~validator.negated

ChildOK(i) == IsOK(Call(validator.specs[i], value))

FailingChildren == {i \in 1..Len(validator.specs) : ~ChildOK(i)}

Min(S) == CHOOSE m \in S : \A n \in S : m <= n

UpTo(n) == [c \in 1..n |-> c]

\* C1: calling an Any combinator evaluates every one of its n children and
\* succeeds exactly when at least one child succeeds on the value.
C1_AnyEvaluatesAllChildren ==
    Plain("Any") =>
        /\ locals.called = UpTo(Len(validator.specs))
        /\ IsOK(result) <=> \E i \in 1..Len(validator.specs) : ChildOK(i)

\* C2: an All combinator evaluates its children in declared order; it
\* succeeds exactly when every child succeeds, and at the first failing
\* child it fails with that child's failure, evaluating no later child.
C2_AllFailsFast ==
    Plain("All") =>
        IF FailingChildren = {}
        THEN IsOK(result) /\ locals.called = UpTo(Len(validator.specs))
        ELSE /\ ~IsOK(result)
             /\ result = Call(validator.specs[Min(FailingChildren)], value)
             /\ locals.called = UpTo(Min(FailingChildren))

C2_Witness ==
    /\ Plain("All")
    /\ ~IsOK(result)
    /\ Len(validator.specs) = 3
    /\ locals.called = <<1, 2>>

\* two consecutive calls of the history are V(x) and (~V)(x)
Pairs == 1..(Len(history) - 1)

\* C3 as stated: the negated validator succeeds exactly when the validator
\* fails, and fails exactly when the validator succeeds.
C3_NegationInvertsOutcome ==
    \A k \in Pairs : IsOK(history[k + 1]) <=> ~IsOK(history[k])

\* C3 amended: on a value that passes the validator's implied precondition
\* (every value when it has none), the negated validator succeeds exactly
\* when the validator fails with a validation error, and fails with a
\* validation error exactly when the validator succeeds.
C3_NegationInvertsCheck ==
    \A k \in Pairs :
        ImpliesPass(validator, value) =>
            /\ IsOK(history[k + 1]) <=> IsValidationError(history[k])
            /\ IsValidationError(history[k + 1]) <=> IsOK(history[k])

C3_Witness ==
    /\ Len(history) = 2
    /\ implies(validator) # <<>>
    /\ ImpliesPass(validator, value)
    /\ IsValidationError(history[1])
    /\ IsOK(history[2])

\* C4: negating twice restores the outcome: (~(~V))(x) succeeds exactly
\* when V(x) succeeds and fails exactly when V(x) fails.
C4_DoubleNegation ==
    \A k \in 1..(Len(history) - 2) : IsOK(history[k + 2]) <=> IsOK(history[k])

C4_Witness ==
    /\ Len(history) = 3
    /\ inverted = 2
    /\ ~IsOK(history[1])
    /\ IsOK(history[2])
    /\ ~IsOK(history[3])

DictChecked == Plain("DictOf") /\ value.t = "dict"

AllKeysConsumed == Len(locals.dict.validated_data_keys) = Len(value.items)

\* the declared pairs that validated no data key
Unmatched ==
    {p \in 1..Len(validator.pairs) : ~InSeq(p, locals.dict.by)}

AcceptsMissing(p) == IsOK(Call(validator.pairs[p][1], MISSING))

DataA == PyDict(<<Item(PyStr("a"), PyInt(1))>>)

DataAC == PyDict(<<Item(PyStr("a"), PyInt(1)), Item(PyStr("c"), PyInt(1))>>)

DataEmpty == PyDict(<<>>)

FirstCall == Called /\ Len(history) = 1

C7_InvalidKeysBeforeMissingKeys ==
    DictChecked =>
        /\ ( /\ locals.dict.scanned
             /\ ~AllKeysConsumed
             /\ locals.dict.missing_key_specs # <<>> )
           => result.kind = "InvalidKeys"
        /\ result.kind = "MissingKeys" => AllKeysConsumed

ValueAt(k) ==
    value.items[CHOOSE j \in 1..Len(value.items) : value.items[j].k = k].v

StrToInt == DictOf(<<(<<IsA("str", None), IsA("int", None)>>)>>)

\* C8: a declared pair consumes every not yet consumed data key that its
\* key validator accepts, so that after a completed scan each key is
\* consumed by the earliest pair accepting it; DictOf([(IsA(str),
\* IsA(int))]) accepts any dict of one or more str keys with int values;
\* and the value of each consumed key satisfies its pair's value validator.
C8_PairConsumesEveryMatchingKey ==
    DictChecked =>
        /\ locals.dict.scanned =>
              \A j \in 1..Len(value.items), p \in 1..Len(validator.pairs) :
                  IsOK(Call(validator.pairs[p][1], value.items[j].k)) =>
                      \E i \in 1..Len(locals.dict.validated_data_keys) :
                          /\ locals.dict.validated_data_keys[i]
                                = value.items[j].k
                          /\ locals.dict.by[i] <= p
        /\ ( /\ validator = StrToInt
             /\ value.items # <<>>
             /\ \A j \in 1..Len(value.items) :
                    value.items[j].k.t = "str" /\ value.items[j].v.t = "int" )
           => IsOK(result)
        /\ \A i \in 1..Len(locals.dict.validated_data_keys) :
              IsOK(Call(validator.pairs[locals.dict.by[i]][2],
                        ValueAt(locals.dict.validated_data_keys[i])))

C8_Witness ==
    /\ DictChecked
    /\ validator = StrToInt
    /\ Len(value.items) = 3
    /\ locals.dict.by = <<1, 1, 1>>
    /\ IsOK(result)

ListChecked ==
    Called /\ IsListOf(validator) /\ ~validator.negated /\ value.t = "list"

ItemOK(i) == IsOK(Call(validator.nested_validator, value.items[i]))

\* C9: on a non-empty list, ListOfAll succeeds exactly when every item
\* satisfies the item validator and ListOfAny succeeds exactly when at
\* least one item does.
C9_ListItemPolicies ==
    (ListChecked /\ value.items # <<>>) =>
        IF validator.cls = "ListOfAll"
        THEN IsOK(result) <=> \A i \in 1..Len(value.items) : ItemOK(i)
        ELSE IsOK(result) <=> \E i \in 1..Len(value.items) : ItemOK(i)

\* C10: under either item policy the empty list is accepted exactly when
\* the item validator accepts MISSING.
C10_EmptyListProbesMissing ==
    (ListChecked /\ value.items = <<>>) =>
        (IsOK(result) <=> IsOK(Call(validator.nested_validator, MISSING)))

----------------------------------------------------------------------------
(* Translation of literal schemas.                                         *)

\* validate(schema, value) translated the literal schema of this state
Translated == schema # NoSchema /\ Len(history) = 1 /\ inverted = 0

\* C11: translate is idempotent: for every literal schema S of the accepted
\* grammar translate(translate(S)) equals translate(S), and translate
\* returns a validator instance unchanged.
C11_TranslateIdempotent ==
    pc = "translated" => retranslated = validator

C11_Witness ==
    /\ pc = "translated"
    /\ schema.t = "dict"
    /\ validator.cls = "DictOf"
    /\ Len(validator.pairs) = 2
    /\ retranslated = validator

RECURSIVE Grammar(_)

\* the key validator the grammar gives a dict key
GrammarKey(k) ==
    CASE k.t = "validator" -> k.items[1]
      [] k.t = "type" -> IsA(k.s, None)
      [] k = None -> Anything
      [] k.t = "function" ->
            IF k.items[1] = None THEN IsA("NoneType", None)
            ELSE Equals(k.items[1])
      [] OTHER -> Equals(k)

GrammarFails(S) == Grammar(S) = StructureSpecificationError

\* the validator the literal-schema grammar gives S, or the
\* structure-specification error
Grammar(S) ==
    CASE S.t = "validator" -> S.items[1]
      [] S = None -> Anything
      [] S.t = "type" -> IsA(S.s, None)
      [] S.t = "function" -> IsA(S.items[1].t, S.items[1])
      [] S.t = "list" ->
            IF S.items = <<>> THEN IsA("list", None)
            ELSE IF Len(S.items) >= 2 THEN StructureSpecificationError
            ELSE IF GrammarFails(S.items[1])
                 THEN StructureSpecificationError
                 ELSE ListOf(Grammar(S.items[1]), None)
      [] S.t = "dict" ->
            IF S.items = <<>> THEN IsA("dict", None)
            ELSE IF \E i \in 1..Len(S.items) : GrammarFails(S.items[i].v)
                 THEN StructureSpecificationError
                 ELSE DictOf([i \in 1..Len(S.items) |->
                                <<GrammarKey(S.items[i].k),
                                  Grammar(S.items[i].v)>>])
      [] OTHER -> IsA(S.t, S)

\* C12: translate agrees with the literal-schema grammar: None gives
\* Anything, a type T gives IsA(T), [] gives IsA(list), [X] gives
\* ListOf(translate(X)), a longer list fails with
\* StructureSpecificationError, {} gives IsA(dict), a non-empty dict gives
\* DictOf of (key validator, translate(v)) pairs, where a validator key is
\* used as it is, a literal or callable key with a default d that is not
\* None becomes Equals(d) and a type key stays IsA(type), and any other
\* literal v gives IsA(type(v), default=v).
C12_TranslateFollowsGrammar ==
    Translated =>
        IF GrammarFails(schema)
        THEN result = StructureSpecificationError /\ validator = Untranslated
        ELSE validator = Grammar(schema)

C12_Witness ==
    /\ Translated
    /\ schema.t = "dict"
    /\ \E i \in 1..Len(schema.items) : schema.items[i].k.t = "function"
    /\ \E i \in 1..Len(schema.items) : schema.items[i].k.t = "type"
    /\ validator = Grammar(schema)
    /\ \E p \in 1..Len(validator.pairs) : validator.pairs[p][1].cls = "Equals"

----------------------------------------------------------------------------
(* Defaults.                                                               *)

\* validator.get_default_for(value) returned or raised
Defaulted == pc = "defaulted"

\* C13: defaulting never raises: for every validator tree and every value
\* get_default_for(value) returns a value, and no exception escapes.
C13_DefaultingNeverRaises ==
    Defaulted => ~IsException(merged)

\* the literal key of declared pair p: the default of its key validator
KeyDefault(p) == get_default_for(validator.pairs[p][1], None, TRUE)

DeclaredKeys == {KeyDefault(p) : p \in 1..Len(validator.pairs)}

\* the result is a dict that maps k to x
MapsTo(d, k, x) ==
    /\ ~IsException(d)
    /\ d.t = "dict"
    /\ dict_has(d.items, k)
    /\ dict_get(d.items, k) = x

\* C14: defaulting preserves unknown data: for every DictOf (any list of
\* pairs, the empty one included) and every dict d, each key of d that is
\* not the literal key of a declared pair appears in get_default_for(d)
\* with the value it had in d.
C14_UnknownKeysPreserved ==
    (Defaulted /\ validator.cls = "DictOf" /\ value.t = "dict") =>
        \A i \in 1..Len(value.items) :
            value.items[i].k \notin DeclaredKeys =>
                MapsTo(merged, value.items[i].k, value.items[i].v)

\* C15: defaulting passes values of the wrong shape through: ListOf returns
\* every value that is neither None nor a list unchanged (falsy ones such
\* as 0, '' and {} included), and DictOf returns every value that is
\* neither None nor a dict unchanged.
C15_WrongShapePassesThrough ==
    Defaulted =>
        /\ (IsListOf(validator) /\ value # None /\ value.t # "list")
              => merged = value
        /\ (validator.cls = "DictOf" /\ value # None /\ value.t # "dict")
              => merged = value

\* C16: defaults only fill absent or None slots: for every validator tree
\* (combinators with an explicit default included) and every value that is
\* neither None nor a container, get_default_for returns the value.
C16_ExistingValueKept ==
    (Defaulted /\ value.t \in {"int", "str"}) => merged = value

\* the default child i produces for the value, or NoDefaultValue
ChildDefault(i) == get_default_for(validator.specs[i], value, FALSE)

\* the children that produced a default
Producing == {i \in 1..Len(validator.specs) : ~IsException(ChildDefault(i))}

\* C17: for every All/Any combinator and value, get_default_for returns the
\* explicit default supplied at construction when there is one (any value
\* other than None, falsy ones included); else the default of the only
\* child that produced one; else, when several children produced one, the
\* first of them if first_is_default is set and the value otherwise; and
\* the value when no child produced a default.
C17_CombinatorDefaultRule ==
    (Defaulted /\ IsCombinator(validator)) =>
        merged =
            IF validator.default # None THEN validator.default
            ELSE IF Producing = {} THEN value
            ELSE IF Cardinality(Producing) = 1 \/ validator.first_is_default
                 THEN ChildDefault(Min(Producing))
                 ELSE value

\* the value found at key k of the defaulted value, None when absent
Existing(k) == IF Truthy(value) THEN dict_get(value.items, k) ELSE None

\* C18: for every DictOf and every value that is a dict or None,
\* get_default_for returns a dict in which each declared pair whose key
\* validator has a literal default k other than None maps k to the default
\* its value validator gives for the value found at k (None when absent),
\* and pairs whose key validator has no literal default add no key.
C18_DeclaredKeysFilled ==
    (Defaulted /\ validator.cls = "DictOf" /\ value.t \in {"dict", "NoneType"})
    =>  /\ ~IsException(merged)
        /\ merged.t = "dict"
        /\ \A p \in 1..Len(validator.pairs) :
              KeyDefault(p) # None =>
                  MapsTo(merged, KeyDefault(p),
                         get_default_for(validator.pairs[p][2],
                                         Existing(KeyDefault(p)), TRUE))
        /\ \A i \in 1..Len(merged.items) :
              \/ merged.items[i].k \in DeclaredKeys \ {None}
              \/ dict_has(value.items, merged.items[i].k)

----------------------------------------------------------------------------
(* The errors that escape validation.                                      *)

\* C19: for every schema of the accepted grammar and every value,
\* validate(schema, value) returns or fails with an error of a
\* ValidationError kind; no other exception escapes.
C19_OnlyValidationErrorsEscape ==
    (Translated /\ ~GrammarFails(schema)) =>
        IsOK(result) \/ IsValidationError(result)

\* the failure of child i on the value
ChildFailure(i) == Call(validator.specs[i], value)

\* C20: when all n children of an Any fail on a value, the call fails with
\* an AllFailed that carries the n child failures in child order; and when
\* all N items of a list fail, ListOfAny fails with an AllFailed that
\* carries a failure for every item.
C20_AllFailedCarriesEveryFailure ==
    /\ (Plain("Any") /\ \A i \in 1..Len(validator.specs) : ~ChildOK(i)) =>
          /\ result.kind = "AllFailed"
          /\ result.args = [i \in 1..Len(validator.specs) |-> ChildFailure(i)]
    /\ ( /\ ListChecked
         /\ validator.cls = "ListOfAny"
         /\ value.items # <<>>
         /\ \A i \in 1..Len(value.items) : ~ItemOK(i) ) =>
          /\ result.kind = "AllFailed"
          /\ Len(result.args) = Len(value.items)


----------------------------------------------------------------------------
(* The errors of DictOf.                                                   *)

\* the data keys no pair consumed
Unconsumed ==
    {value.items[j].k : j \in 1..Len(value.items)}
        \ {locals.dict.validated_data_keys[i] :
              i \in 1..Len(locals.dict.validated_data_keys)}

ArgSet(e) == {e.args[i] : i \in 1..Len(e.args)}

\* what MissingKeys names for the required pairs that matched no key
MissingNamed ==
    {MissingRepr(validator, p) : p \in {q \in Unmatched : ~AcceptsMissing(q)}}

\* C21: when DictOf fails because of key mismatches it reports all the
\* offending keys in one error, however many they are: an InvalidKeys that
\* names exactly the unconsumed data keys or, when there is none, a
\* MissingKeys that names exactly the required pairs that matched no key.
C21_KeyErrorsNameEveryKey ==
    (DictChecked /\ locals.dict.scanned) =>
        /\ Unconsumed # {} =>
              result.kind = "InvalidKeys" /\ ArgSet(result) = Unconsumed
        /\ (Unconsumed = {} /\ MissingNamed # {}) =>
              result.kind = "MissingKeys" /\ ArgSet(result) = MissingNamed


\* the exception classes an error of class kind is an instance of
Bases(kind) ==
    CASE kind \in {"AllFailed", "AtLeastOneFailed"} ->
            {kind, "CombinedValidationError", "ValidationError"}
      [] kind \in ValidationErrorKinds -> {kind, "ValidationError"}
      [] OTHER -> {kind}

\* the failure of the value stored under the first key whose value the scan
\* of the pairs rejects: pair p is the first that consumes item j
ValueFailure(p, j) == Call(validator.pairs[p][2], value.items[j].v)

FirstConsumer(p, j) ==
    /\ IsOK(Call(validator.pairs[p][1], value.items[j].k))
    /\ \A q \in 1..(p - 1) :
          ~IsOK(Call(validator.pairs[q][1], value.items[j].k))

\* probing a key validator with MISSING passes or fails with a validation
\* error, so that only a value can end the scan of the pairs
ProbeSafe ==
    \A p \in 1..Len(validator.pairs) :
        LET m == Call(validator.pairs[p][1], MISSING)
        IN  IsOK(m) \/ IsValidationError(m)

\* the scan of the pairs ended at a value that failed validation
ValueFailed ==
    DictChecked /\ ProbeSafe /\ ~IsOK(result) /\ ~locals.dict.scanned

\* C22: when the value stored under a dict key fails validation with an
\* error of kind K (MissingKeys or InvalidKeys of a nested dict validator,
\* for one), the enclosing dict validator fails with an error of the same
\* kind K that carries the key as context.
C22_NestedErrorKeepsKind ==
    ValueFailed =>
        \E p \in 1..Len(validator.pairs), j \in 1..Len(value.items) :
            /\ FirstConsumer(p, j)
            /\ IsValidationError(ValueFailure(p, j))
            /\ ValueFailure(p, j).kind \in Bases(result.kind)
            /\ IsText(result.args[1])
            /\ result.args[1].k = value.items[j].k


----------------------------------------------------------------------------
(* Construction and immutability of validator trees.                       *)

Built == pc = "built"

\* a combinator instance one of whose children stands for a bare class
HoldsBareClass(out) ==
    /\ ~IsException(out)
    /\ \E i \in 1..Len(out.specs) :
          out.specs[i].cls = "IsA"
          /\ out.specs[i].expected_type \in ValidatorClasses

\* C23: every construction of a combinator in which an operand or child is
\* a validator class rather than an instance is rejected at once with a
\* TypeError, by v | Cls and v & Cls and equally by Any([v, Cls]) and
\* All([v, Cls]); no combinator that contains a bare class is ever built.
C23_BareClassRejected ==
    Built =>
        /\ is_validator_class(value) => built.out = TypeError
        /\ ~HoldsBareClass(built.out)


\* object a is what it was, and does what it did
SameObject(before, after, a) ==
    /\ a <= Len(after)
    /\ after[a] = before[a]
    /\ \A x \in HeapValues :
          /\ Call(Deref(after, a), x) = Call(Deref(before, a), x)
          /\ get_default_for(Deref(after, a), x, TRUE)
                = get_default_for(Deref(before, a), x, TRUE)

\* C24: validator trees are immutable under every operation: after each
\* of v(x), v.get_default_for(x), ~v, v & w and v | w every validator
\* object that existed before it has the same fields (children, bounds,
\* defaults, negated flag) and the same outcome on every value as before;
\* ~v returns a new object, negated the other way, and leaves v.negated
\* as it was.
C24_TreesImmutable ==
    /\ \A a \in 1..Len(heap.before) :
          SameObject(heap.before, heap.nodes, a)
    /\ heap.op = "invert" =>
          /\ heap.ret > Len(heap.before)
          /\ heap.nodes[heap.ret].negated = ~heap.before[heap.self].negated
          /\ heap.nodes[heap.self].negated = heap.before[heap.self].negated

\* a combinator was negated: the copy is another object with other children
C24_Witness ==
    /\ heap.op = "invert"
    /\ IsCombinator(heap.before[heap.self])
    /\ heap.ret = Len(heap.nodes)
    /\ heap.ret # heap.self
    /\ heap.nodes[heap.ret].negated
    /\ ~heap.nodes[heap.self].negated
    /\ heap.nodes[heap.ret].specs # heap.nodes[heap.self].specs
    /\ Deref(heap.nodes, heap.ret) = invert(Deref(heap.nodes, heap.self))


----------------------------------------------------------------------------
(* The scan of the declared pairs.                                         *)

\* the data keys pair p consumed
ConsumedBy(p) ==
    {locals.dict.validated_data_keys[i] :
        i \in {n \in 1..Len(locals.dict.by) : locals.dict.by[n] = p}}

\* C25 as stated: each declared pair consumes at most one data key; the
\* scan of a pair stops at the first not yet consumed key that satisfies
\* its key validator.
C25_PairConsumesOneKey ==
    DictChecked =>
        \A p \in 1..Len(validator.pairs) : Cardinality(ConsumedBy(p)) <= 1

\* C25 amended: the scan of a pair does not stop at the first match: it
\* goes through all the data keys, so that after a completed scan pair p
\* has consumed exactly the keys its key validator accepts and no earlier
\* pair accepts, however many they are; no key is consumed twice.
C25_PairConsumesAllItsKeys ==
    DictChecked =>
        /\ Injective(locals.dict.validated_data_keys)
        /\ locals.dict.scanned =>
              \A p \in 1..Len(validator.pairs) :
                  ConsumedBy(p) =
                      {value.items[j].k :
                          j \in {n \in 1..Len(value.items) :
                                    FirstConsumer(p, n)}}

C25_Witness ==
    /\ DictChecked
    /\ locals.dict.scanned
    /\ Len(validator.pairs) = 2
    /\ Cardinality(ConsumedBy(1)) = 2
    /\ Cardinality(ConsumedBy(2)) = 1
    /\ IsOK(result)


----------------------------------------------------------------------------
(* The error of a failing All.                                             *)

AllFailing == Plain("All") /\ ~IsOK(result)

FirstFailure == ChildFailure(Min(FailingChildren))

----------------------------------------------------------------------------
(* Defaults applied twice, and defaults of valid values.                   *)

RECURSIVE PyEq(_, _)

\* x == y of Python: lists are equal item by item, dicts are equal when
\* they hold the same keys with equal values, in whatever order
PyEq(x, y) ==
    CASE x.t = "dict" /\ y.t = "dict" ->
            /\ Len(x.items) = Len(y.items)
            /\ \A i \in 1..Len(x.items) :
                  /\ dict_has(y.items, x.items[i].k)
                  /\ PyEq(x.items[i].v, dict_get(y.items, x.items[i].k))
      [] x.t = "list" /\ y.t = "list" ->
            /\ Len(x.items) = Len(y.items)
            /\ \A i \in 1..Len(x.items) : PyEq(x.items[i], y.items[i])
      [] OTHER -> x = y

\* C27: default merging is idempotent: for every validator tree V and every
\* value x, V.get_default_for(V.get_default_for(x)) equals
\* V.get_default_for(x).
C27_MergeIdempotent ==
    pc = "remerged" => (~IsException(remerged) /\ PyEq(remerged, merged))

\* C28: default merging preserves validity: for every validator tree V and
\* every value x such that V(x) succeeds, V(V.get_default_for(x)) succeeds
\* too.
C28_MergeKeepsValid ==
    (pc = "revalidated" /\ IsOK(Call(validator, value))) => IsOK(result)


\* the pairs whose key validator accepts the key of item j
Accepting(j) ==
    {p \in 1..Len(validator.pairs) :
        IsOK(Call(validator.pairs[p][1], value.items[j].k))}

\* item j's value fails under the earliest pair that accepts its key
FailsUnderFirst(j) ==
    /\ Accepting(j) # {}
    /\ ~IsOK(ValueFailure(Min(Accepting(j)), j))

\* C29: in DictOf validation every data key is consumed by at most one
\* declared pair, the earliest pair whose key validator accepts it, and its
\* value is checked against that pair's value validator only; a value that
\* fails under that pair fails the whole validation at once, before any
\* check of invalid or missing keys, even if a later pair would have
\* accepted the same key and value.
C29_EarliestPairDecides ==
    DictChecked =>
        /\ Injective(locals.dict.validated_data_keys)
        /\ \A i \in 1..Len(locals.dict.by), j \in 1..Len(value.items) :
              value.items[j].k = locals.dict.validated_data_keys[i] =>
                  /\ locals.dict.by[i] = Min(Accepting(j))
                  /\ IsOK(ValueFailure(locals.dict.by[i], j))
        /\ (\E j \in 1..Len(value.items) : FailsUnderFirst(j)) =>
              /\ ~IsOK(result)
              /\ ~locals.dict.scanned
              /\ result.kind \notin {"InvalidKeys", "MissingKeys"}

C29_Witness ==
    /\ DictChecked
    /\ Len(validator.pairs) = 2
    /\ ~IsOK(result)
    /\ ~locals.dict.scanned
    /\ \E j \in 1..Len(value.items) :
          /\ Accepting(j) = {1, 2}
          /\ ~IsOK(ValueFailure(1, j))
          /\ IsOK(ValueFailure(2, j))


\* a leaf validator built without a default argument
BuiltWithoutDefault(v) == v.cls \in {"IsA", "Exists"} /\ v.default = None

\* the children of the combinator that were given a default
GivenDefault ==
    {i \in 1..Len(validator.specs) :
        validator.specs[i].cls = "IsA" /\ validator.specs[i].default # None}

\* C30: a leaf validator constructed without a default yields no default:
\* for IsA(T) and Exists() built with no default argument,
\* get_default_for(None, silent=False) raises NoDefaultValue, so inside a
\* combinator such a child is not counted as having produced a default and
\* (IsA(T) | IsA(U, default=d)).get_default_for(None) returns d.
C30_LeafWithoutDefaultYieldsNone ==
    (Defaulted /\ value = None) =>
        /\ BuiltWithoutDefault(validator) =>
              /\ IsException(get_default_for(validator, None, FALSE))
              /\ get_default_for(validator, None, FALSE).kind = "NoDefaultValue"
        /\ ( /\ validator.cls = "Any"
             /\ ~validator.negated
             /\ validator.default = None
             /\ Len(validator.specs) = 2
             /\ \A i \in 1..2 : validator.specs[i].cls = "IsA"
             /\ Cardinality(GivenDefault) = 1 )
           => merged = validator.specs[Min(GivenDefault)].default

====
